---- MODULE Spec2Model ----
(***************************************************************************)
(* The workflow coordinator of saga-biography.                             *)
(*                                                                         *)
(* Two programs drive the same action-selection state machine:             *)
(*   interactive_smart.py  SmartInteractiveSession.run, one coordinator    *)
(*                         loop over one in-memory session;                *)
(*   app.py                the Gradio handlers over the sessions kept by   *)
(*                         session_manager.SessionManager.                 *)
(* A third part is one call of models/client_manager.py                    *)
(* FallbackModelClient.create, the client behind every backend call.       *)
(* A behaviour of the model is a run of one of these, chosen in Init       *)
(* (program).  The variables of the others keep their initial values.      *)
(* DecideSpec, at the end, is one call of the Smart decision method on a   *)
(* session of up to MaxRounds interview rounds; FailingBackendSpec is run  *)
(* without a decision backend.  CriticSpec is one call of the batch        *)
(* pipeline, agents/coordinator.py BiographyCritic.process_person_biography,*)
(* and SerializeSpec is utils/file_manager.py _make_json_serializable over *)
(* a bounded set of Python values.                                         *)
(*                                                                         *)
(* Abstractions, all of values the coordinator never inspects:             *)
(*   - a text is "" or one of a few non-empty representatives; the code    *)
(*     only tests texts for emptiness and length;                          *)
(*   - interview_content is its length in characters;                      *)
(*   - a score is kept in tenths (8.0 is 80);                              *)
(*   - action_history keeps its last GuardWindow entries, the ones the     *)
(*     loop guard reads, and history_len its full length.                  *)
(***************************************************************************)
EXTENDS Integers, Sequences, FiniteSets, TLC

VARIABLES
    program,              \* which entry point runs: "smart", "gradio" or "client"
    pc,                   \* SmartInteractiveSession.run: position
    iteration,            \* run: local iteration counter
    interview_dialogue,   \* self.interview_dialogue: speakers of the turns
    interview_content,    \* len(self.interview_content)
    biography,            \* self.biography
    biography_versions,   \* self.biography_versions
    quality_result,       \* self.quality_result
    historical_context,   \* self.historical_context
    extracted_anchors,    \* self.extracted_anchors
    current_phase,        \* self.current_phase
    action_history,       \* self.action_history (last GuardWindow entries)
    history_len,          \* len(self.action_history)
    backend_answer,       \* the decision backend's answer in the latest iteration
    decision,             \* run: the decision of the latest iteration
    active_sessions,      \* app.py: session_manager.active_sessions, by session id
    export_file,          \* app.py: the JSON document export_session wrote last
    sending,              \* app.py: handle_send_message calls suspended at an await
    calls,                \* app.py: handler calls made so far
    client_pc,            \* FallbackModelClient.create: position
    attempt,              \* create: the loop variable of the running for loop
    backup_client,        \* self.backup_client is not None
    primary_calls,        \* create: calls made to primary_client.create
    backup_calls,         \* create: calls made to backup_client.create
    critic,               \* process_person_biography: position and locals
    result,               \* process_person_biography: the result dict
    obj,                  \* _make_json_serializable: the value handed in
    serializable_result,  \* file_manager.py: the value it returned last
    applied               \* how many times it has been applied

smart_vars == <<pc, iteration, interview_dialogue, interview_content, biography,
                biography_versions, quality_result, historical_context,
                extracted_anchors, current_phase, action_history, history_len,
                backend_answer, decision>>

gradio_vars == <<active_sessions, export_file, sending, calls>>

client_vars == <<client_pc, attempt, backup_client, primary_calls, backup_calls>>

critic_vars == <<critic, result>>

file_vars == <<obj, serializable_result, applied>>

vars == <<program, smart_vars, gradio_vars, client_vars, critic_vars, file_vars>>

----------------------------------------------------------------------------
(* Bounds of the model *)

\* the iteration cap of run; the code sets 50, the model explores a smaller cap
max_iterations == 4
\* app.py: handler calls explored
MaxCalls == 4
\* app.py: sessions explored
MaxSessions == 2
\* interview rounds of the sessions one decision is taken on
MaxRounds == 8

(* Program constants *)

GuardWindow == 2              \* the guard reads action_history[-1] and [-2]
QualityThreshold == 80        \* overall_score < 8.0
WriteMinDialogue == 6         \* len(interview_dialogue) >= 6
LongInterview == 1500         \* len(interview_content) > 1500
ExtractMinDialogue == 3       \* len(interview_dialogue) >= 3
GuardShortDialogue == 5       \* len(interview_dialogue) < 5
RefineThreshold == 75         \* app.py: overall_score < 7.5
RetryRange == 3               \* client_manager.py: for attempt in range(3)
LastAttempt == 2              \* client_manager.py: if attempt == 2
OpeningLength == 455          \* app.py: len of the opening entry of interview_content

----------------------------------------------------------------------------
(* Values *)

ActionNames == {"continue_interview", "end_interview", "extract_events",
                "research_history", "write_biography", "evaluate_quality",
                "refine_biography", "complete"}

\* what the decision backend can answer: an error or unparseable text, or a
\* JSON object whose next_action is an action name, some other value, or absent
KeyMissing == "<no next_action key>"
BogusAction == "summarize"
BackendAnswers == {"<error>"} \cup ActionNames \cup {BogusAction, KeyMissing}

\* texts a generative call returns after strip()
BackendTexts == {"", "text"}

\* lengths one interview round adds to interview_content
TurnLengths == {400, 1600}
\* app.py: length one turn adds to interview_content
GradioTurnLengths == {400}
\* app.py: what generate_biography returns: the backend's text or its own
\* failure message
GradioWriteTexts == BackendTexts \cup {"Biography generation failed"}

\* quality_result: {} or the critic's dict.  score is "num" with
\* overall_score in tenths, "missing" (no overall_score key) or "nonnum"
\* (overall_score is a JSON string or null); feedback tells the critic's own
\* results ("Assessment failed", "Assessment error") from the backend's
NoQuality == [present |-> FALSE, score |-> "missing", overall_score |-> 0,
              meets_standard |-> FALSE, feedback |-> "<none>"]
Scores == {0, 75, 80, 90}

\* what the critic's backend call can give: an exception ("error"), text
\* without a JSON object ("no_json"), text whose braces do not parse
\* ("bad_json"), or a JSON object with the fields the program reads
FailureKinds == {"error", "no_json", "bad_json"}
CriticFailures ==
    {[kind |-> k, score |-> "missing", overall_score |-> 0, meets_standard |-> FALSE] :
       k \in FailureKinds}
ParsedOutputs ==
    {[kind |-> "object", score |-> "num", overall_score |-> s,
      meets_standard |-> (s >= 90)] : s \in Scores}
    \cup {[kind |-> "object", score |-> "missing", overall_score |-> 0,
           meets_standard |-> FALSE],
          [kind |-> "object", score |-> "nonnum", overall_score |-> 0,
           meets_standard |-> TRUE]}
CriticOutcomes == CriticFailures \cup ParsedOutputs

\* a critic that answers a failure with an empty result
evaluate_biography_quality_Empty(outcome) ==
    IF outcome.kind \in FailureKinds
    THEN [present |-> FALSE, score |-> "missing", overall_score |-> 0,
          meets_standard |-> FALSE, feedback |-> "<none>"]
    ELSE [present |-> TRUE, score |-> outcome.score,
          overall_score |-> outcome.overall_score,
          meets_standard |-> outcome.meets_standard, feedback |-> "<model>"]

\* BiographyQualityCritic.evaluate_biography_quality: the parsed object, or the
\* sentinel when nothing parses (json.loads raising lands in the except branch)
evaluate_biography_quality(outcome) ==
    IF outcome.kind = "no_json"
    THEN [present |-> TRUE, score |-> "num", overall_score |-> 0,
          meets_standard |-> FALSE, feedback |-> "Assessment failed"]
    ELSE IF outcome.kind \in FailureKinds
    THEN [present |-> TRUE, score |-> "num", overall_score |-> 0,
          meets_standard |-> FALSE, feedback |-> "Assessment error"]
    ELSE [present |-> TRUE, score |-> outcome.score,
          overall_score |-> outcome.overall_score,
          meets_standard |-> outcome.meets_standard, feedback |-> "<model>"]

EvaluatorResults == {evaluate_biography_quality(outcome) : outcome \in CriticOutcomes}

\* extracted_anchors: None, or the extractor's dict (seven keys, so truthy),
\* with every list empty or with search queries
Anchors == {"empty_lists", "with_queries"}

\* what the extractor's backend call can give: the failures of the critic's, a
\* JSON object without anchors, or one with anchors
ExtractorOutcomes == FailureKinds \cup {"object_empty", "object"}

\* an extractor that answers a failure with None
extract_event_anchors_None(outcome) ==
    IF outcome \in FailureKinds THEN "None"
    ELSE IF outcome = "object_empty" THEN "empty_lists"
    ELSE "with_queries"

\* EventAnchorExtractor.extract_event_anchors: the lists of the parsed object
\* (absent keys read as []), or the structure of empty lists when there is no
\* JSON object or anything raises
extract_event_anchors(outcome) ==
    IF outcome \in FailureKinds THEN "empty_lists"
    ELSE IF outcome = "object_empty" THEN "empty_lists"
    ELSE "with_queries"

\* historical_context: {} or the contextualizer's dict (four keys, so truthy)
Contexts == {"no_results", "with_results"}

----------------------------------------------------------------------------
(* Helpers *)

Last(s) == s[Len(s)]

\* the last n entries of s
Tail_n(s, n) == IF Len(s) <= n THEN s ELSE SubSeq(s, Len(s) - n + 1, Len(s))

\* dict.get("overall_score", 0) of a quality_result with a numeric score
OverallScore(q) == IF q.score = "num" THEN q.overall_score ELSE 0

\* decision.get("next_action", "complete")
DecisionAction(d) == IF d.next_action = KeyMissing THEN "complete" ELSE d.next_action

MkDecision(a, r, c) == [next_action |-> a, reasoning |-> r, confidence |-> c]

----------------------------------------------------------------------------
(* SmartInteractiveSession.coordinator_decide_next_action *)

\* The state snapshot formats overall_score with ':.1f' before the try block:
\* a non-numeric overall_score raises there and the exception leaves the method.
ContextBuilds == ~(quality_result.present /\ quality_result.score = "nonnum")

\* a decision that could not be produced: the method raised
Raised == MkDecision("<raised>", "<raised>", 0)

\* a Priority 1 that never finds the score good enough
FallbackEvaluated_NeverDone ==
    IF quality_result.score = "nonnum" THEN Raised
    ELSE MkDecision("refine_biography", "fallback", 90)

\* Priority 1 of the except branch: a biography that has been evaluated.
\* Comparing a non-numeric overall_score with 8.0 raises.
FallbackEvaluated ==
    IF quality_result.score = "nonnum" THEN Raised
    ELSE IF OverallScore(quality_result) < QualityThreshold
    THEN MkDecision("refine_biography", "fallback", 90)
    ELSE MkDecision("complete", "fallback", 95)

\* an except branch that falls off its end: the method returns None
FallbackDefault_None == MkDecision("None", "None", 0)

\* the last return of the except branch
FallbackDefault == MkDecision("continue_interview", "fallback", 60)

\* a Priority 6 that answers with the confidence of the last return
FallbackTooShort_Unsure == MkDecision("continue_interview", "fallback", 60)

\* Priority 6 of the except branch: fewer than three dialogue entries
FallbackTooShort == MkDecision("continue_interview", "fallback", 95)

\* a rule table that tests Priority 4 before Priority 3
SmartFallback_ExtractFirst ==
    IF biography # "" /\ quality_result.present
    THEN FallbackEvaluated
    ELSE IF biography # "" /\ ~quality_result.present
    THEN MkDecision("evaluate_quality", "fallback", 88)
    ELSE IF Len(interview_dialogue) >= ExtractMinDialogue /\ extracted_anchors = "None"
    THEN MkDecision("extract_events", "fallback", 75)
    ELSE IF /\ Len(interview_dialogue) >= WriteMinDialogue
            /\ (historical_context # "{}" \/ interview_content > LongInterview)
            /\ biography = ""
    THEN MkDecision("write_biography", "fallback", 85)
    ELSE IF extracted_anchors # "None" /\ historical_context = "{}"
    THEN MkDecision("research_history", "fallback", 82)
    ELSE IF Len(interview_dialogue) < ExtractMinDialogue
    THEN FallbackTooShort
    ELSE IF current_phase = "post_interview" /\ extracted_anchors = "None"
    THEN MkDecision("extract_events", "fallback", 80)
    ELSE IF current_phase = "post_interview" /\ biography = ""
    THEN MkDecision("write_biography", "fallback", 78)
    ELSE FallbackDefault

\* the rule table of the except branch
SmartFallback ==
    IF biography # "" /\ quality_result.present
    THEN FallbackEvaluated
    ELSE IF biography # "" /\ ~quality_result.present
    THEN MkDecision("evaluate_quality", "fallback", 88)
    ELSE IF /\ Len(interview_dialogue) >= WriteMinDialogue
            /\ (historical_context # "{}" \/ interview_content > LongInterview)
            /\ biography = ""
    THEN MkDecision("write_biography", "fallback", 85)
    ELSE IF Len(interview_dialogue) >= ExtractMinDialogue /\ extracted_anchors = "None"
    THEN MkDecision("extract_events", "fallback", 75)
    ELSE IF extracted_anchors # "None" /\ historical_context = "{}"
    THEN MkDecision("research_history", "fallback", 82)
    ELSE IF Len(interview_dialogue) < ExtractMinDialogue
    THEN FallbackTooShort
    ELSE IF current_phase = "post_interview" /\ extracted_anchors = "None"
    THEN MkDecision("extract_events", "fallback", 80)
    ELSE IF current_phase = "post_interview" /\ biography = ""
    THEN MkDecision("write_biography", "fallback", 78)
    ELSE FallbackDefault

\* a guard that compares the proposal with the last recorded action only
GuardFires_LastOnly(next_action) ==
    /\ history_len >= GuardWindow
    /\ Len(action_history) >= GuardWindow
    /\ next_action = Last(action_history)[2]

\* the guard's test: at least two recorded actions, both equal to the proposal
GuardFires(next_action) ==
    /\ history_len >= GuardWindow
    /\ Len(action_history) >= GuardWindow
    /\ next_action = Last(action_history)[2]
    /\ next_action = action_history[Len(action_history) - 1][2]

\* the guard's replacement decision
GuardOverride ==
    IF biography # "" /\ ~quality_result.present
    THEN MkDecision("evaluate_quality", "repeat", 90)
    ELSE IF extracted_anchors # "None" /\ historical_context # "{}" /\ biography = ""
    THEN MkDecision("write_biography", "repeat", 90)
    ELSE IF extracted_anchors # "None" /\ historical_context = "{}"
    THEN MkDecision("write_biography", "repeat", 85)
    ELSE IF Len(interview_dialogue) < GuardShortDialogue
    THEN MkDecision("continue_interview", "repeat", 80)
    ELSE MkDecision("write_biography", "repeat", 75)

\* the try branch: the parsed JSON object, passed through the guard
ModelDecision(answer) ==
    IF GuardFires(answer) THEN GuardOverride ELSE MkDecision(answer, "model", 50)

\* the method's result for a backend answer (ContextBuilds holding)
Decide(answer) ==
    IF answer = "<error>" THEN SmartFallback ELSE ModelDecision(answer)

----------------------------------------------------------------------------
(* session_manager.SessionManager *)

\* create_session: the session a new id gets.  refinement_run is not a key of
\* the session: it records which biography_manager method refine_biography
\* called last.
FreshSession ==
    [interview_dialogue |-> <<>>,
     conversation_history |-> <<>>,
     interview_content |-> 0,
     biography |-> "",
     biography_versions |-> <<>>,
     quality_result |-> NoQuality,
     historical_context |-> "{}",
     extracted_anchors |-> "None",
     current_phase |-> "starting",
     action_history |-> <<>>,
     refinement_run |-> "<none>"]

\* export_session_data: the document built from a session
export_session_data(sid) ==
    LET session_data == active_sessions[sid] IN
    [metadata   |-> [session_id |-> sid],
     interview  |-> [dialogue |-> session_data.interview_dialogue,
                     content |-> session_data.interview_content],
     biography  |-> [final_version |-> session_data.biography,
                     all_versions |-> session_data.biography_versions],
     evaluation |-> [quality |-> session_data.quality_result],
     research   |-> [extracted_anchors |-> session_data.extracted_anchors,
                     historical_context |-> session_data.historical_context],
     workflow   |-> [current_phase |-> session_data.current_phase,
                     action_history |-> session_data.action_history]]

\* json.dump then json.load of a document: every Python tuple comes back as a
\* list; strings, numbers, booleans, None, lists and string-keyed dicts come
\* back equal
JsonList(entry) == [entry EXCEPT !.kind = "list"]

JsonRoundTrip(doc) ==
    [doc EXCEPT !.workflow.action_history =
        [i \in 1..Len(doc.workflow.action_history) |->
            JsonList(doc.workflow.action_history[i])]]

NoFile == [metadata |-> [session_id |-> 0]]

----------------------------------------------------------------------------
(* SmartInteractiveSession.__init__ *)

NoDecision == MkDecision("<none>", "<none>", 0)

SmartInit ==
    /\ pc = "start"
    /\ iteration = 0
    /\ interview_dialogue = <<>>
    /\ interview_content = 0
    /\ biography = ""
    /\ biography_versions = <<>>
    /\ quality_result = NoQuality
    /\ historical_context = "{}"
    /\ extracted_anchors = "None"
    /\ current_phase = "starting"
    /\ action_history = <<>>
    /\ history_len = 0
    /\ backend_answer = "<none>"
    /\ decision = NoDecision

GradioInit ==
    /\ active_sessions = <<>>
    /\ export_file = NoFile
    /\ sending = <<>>
    /\ calls = 0

\* FallbackModelClient.__init__: a backup client exists or not
ClientInit ==
    /\ client_pc = "idle"
    /\ attempt = 0
    /\ backup_client \in (IF program = "client" THEN BOOLEAN ELSE {FALSE})
    /\ primary_calls = 0
    /\ backup_calls = 0

\* BiographyCritic.__init__, and the locals of a call not yet made
NoEvaluation == [quality |-> NoQuality, needs_interview |-> FALSE,
                 research_required |-> FALSE]

NoResult == [status |-> "<none>", error |-> "None", quality_score |-> 0,
             finalized |-> FALSE, final_quality_score |-> 0,
             improvement_iterations |-> 0]

CriticInit ==
    /\ critic = [pc |-> "idle", current_stage |-> "initialization", stages |-> <<>>,
                 current_iteration |-> 0, quality_result |-> NoEvaluation,
                 rewrites |-> 0, evaluations |-> 0, strategies |-> <<>>]
    /\ result = NoResult

\* a Python value: its type, its text when it is a scalar, its items when it
\* is a list, the values of its keys when it is a dict, the values of its
\* attributes when it is an object with a __dict__
Value(kind, scalar, items) == [kind |-> kind, scalar |-> scalar, items |-> items]

NoneValue == Value("None", "None", <<>>)

FileInit ==
    /\ obj = NoneValue
    /\ serializable_result = NoneValue
    /\ applied = 0

Init ==
    /\ program \in {"smart", "gradio", "client"}
    /\ SmartInit
    /\ GradioInit
    /\ ClientInit
    /\ CriticInit
    /\ FileInit

----------------------------------------------------------------------------
(* SmartInteractiveSession.run *)

\* a loop that tests the cap one iteration late
LoopCondition_OffByOne == iteration <= max_iterations

\* the while condition
LoopCondition == iteration < max_iterations

\* run asks whether to start; anything but 'y' returns at once
RunStart ==
    /\ program = "smart" /\ pc = "start"
    /\ \E ready \in {"y", "n"} : pc' = IF ready = "y" THEN "loop" ELSE "done"
    /\ UNCHANGED <<program, critic_vars, file_vars, client_vars, gradio_vars, iteration, interview_dialogue, interview_content,
                   biography, biography_versions, quality_result,
                   historical_context, extracted_anchors, current_phase,
                   action_history, history_len, backend_answer, decision>>

\* an iteration head that records the counter's value before the increment
Decided_StaleCounter(answer, action) ==
    /\ program = "smart" /\ pc = "loop"
    /\ LoopCondition
    /\ ContextBuilds
    /\ DecisionAction(Decide(answer)) = action
    /\ iteration' = iteration + 1
    /\ backend_answer' = answer
    /\ decision' = Decide(answer)
    /\ action_history' =
         Tail_n(Append(action_history,
                       <<iteration, action, Decide(answer).reasoning>>),
                GuardWindow)
    /\ history_len' = history_len + 1
    /\ UNCHANGED <<program, critic_vars, file_vars, client_vars, gradio_vars>>

\* the head of an iteration: iteration += 1, the decision for a backend answer,
\* and the entry appended to action_history
Decided(answer, action) ==
    /\ program = "smart" /\ pc = "loop"
    /\ LoopCondition
    /\ ContextBuilds
    /\ DecisionAction(Decide(answer)) = action
    /\ iteration' = iteration + 1
    /\ backend_answer' = answer
    /\ decision' = Decide(answer)
    /\ action_history' =
         Tail_n(Append(action_history,
                       <<iteration + 1, action, Decide(answer).reasoning>>),
                GuardWindow)
    /\ history_len' = history_len + 1
    /\ UNCHANGED <<program, critic_vars, file_vars, client_vars, gradio_vars>>

\* a version numbered by the length of the list before the append
NewVersion_LenBefore(versions, content, refined, strategy) ==
    [version |-> Len(versions), content |-> content, refined |-> refined,
     strategy |-> strategy]

\* version entry appended by write_biography / refine_biography; refined and
\* strategy stand for the optional keys "refined" and "refinement_strategy"
NewVersion(versions, content, refined, strategy) ==
    [version |-> Len(versions) + 1, content |-> content, refined |-> refined,
     strategy |-> strategy]

\* the state snapshot cannot be formatted: the exception ends run
RunDecideRaises ==
    /\ program = "smart" /\ pc = "loop"
    /\ LoopCondition
    /\ ~ContextBuilds
    /\ iteration' = iteration + 1
    /\ pc' = "crashed"
    /\ UNCHANGED <<program, critic_vars, file_vars, client_vars, gradio_vars, interview_dialogue, interview_content, biography,
                   biography_versions, quality_result, historical_context,
                   extracted_anchors, current_phase, action_history, history_len,
                   backend_answer, decision>>

\* a round that records the question and drops the answer
RoundTurns_QuestionOnly == <<"Interviewer">>

\* the speakers of the two entries conduct_interview_round appends
RoundTurns == <<"Interviewer", "You">>

\* continue_interview: conduct_interview_round.  The question of every round
\* but the first comes from the backend, whose failure ends run.
RunContinueInterview ==
    \E answer \in BackendAnswers :
      /\ Decided(answer, "continue_interview")
      /\ current_phase' = "interview"
      /\ \/ /\ \E n \in TurnLengths : interview_content' = interview_content + n
            /\ interview_dialogue' = interview_dialogue \o RoundTurns
            /\ pc' = "loop"
         \/ /\ Len(interview_dialogue) > 0
            /\ pc' = "crashed"
            /\ UNCHANGED <<interview_dialogue, interview_content>>
      /\ UNCHANGED <<biography, biography_versions, quality_result,
                     historical_context, extracted_anchors>>

\* end_interview: display_phase sets "interview", the test then always passes
RunEndInterview ==
    \E answer \in BackendAnswers :
      /\ Decided(answer, "end_interview")
      /\ current_phase' = "post_interview"
      /\ pc' = "loop"
      /\ UNCHANGED <<interview_dialogue, interview_content, biography,
                     biography_versions, quality_result, historical_context,
                     extracted_anchors>>

\* extract_events: the extractor absorbs its failures into the empty structure.
\* Printing the first five anchors of a parsed object raises when one of them
\* is not a string (the extractor itself joins the first three only), which
\* ends run.
RunExtractEvents ==
    \E answer \in BackendAnswers, outcome \in ExtractorOutcomes :
      /\ Decided(answer, "extract_events")
      /\ current_phase' = "history"
      /\ extracted_anchors' = extract_event_anchors(outcome)
      /\ \/ pc' = "loop"
         \/ outcome = "object" /\ pc' = "crashed"
      /\ UNCHANGED <<interview_dialogue, interview_content, biography,
                     biography_versions, quality_result, historical_context>>

\* research_history: a no-op without anchors; otherwise historical_context is
\* replaced by the contextualizer's result
RunResearchHistory ==
    \E answer \in BackendAnswers :
      /\ Decided(answer, "research_history")
      /\ current_phase' = "history"
      /\ IF extracted_anchors # "None"
         THEN \E c \in Contexts :
                /\ (c = "with_results" => extracted_anchors = "with_queries")
                /\ historical_context' = c
         ELSE UNCHANGED historical_context
      /\ pc' = "loop"
      /\ UNCHANGED <<interview_dialogue, interview_content, biography,
                     biography_versions, quality_result, extracted_anchors>>

\* write_biography: a backend failure ends run before anything is stored
RunWriteBiography ==
    \E answer \in BackendAnswers :
      /\ Decided(answer, "write_biography")
      /\ current_phase' = "writing"
      /\ \/ \E text \in BackendTexts :
              /\ biography' = text
              /\ biography_versions' = Append(biography_versions, NewVersion(biography_versions, text, FALSE, "<none>"))
              /\ pc' = "loop"
         \/ /\ pc' = "crashed"
            /\ UNCHANGED <<biography, biography_versions>>
      /\ UNCHANGED <<interview_dialogue, interview_content, quality_result,
                     historical_context, extracted_anchors>>

\* evaluate_quality: the critic absorbs its failures into the sentinel result.
\* Printing the dimension scores of a parsed result raises when the backend's
\* "dimension_scores" is not an object, which ends run.
RunEvaluateQuality ==
    \E answer \in BackendAnswers :
      /\ Decided(answer, "evaluate_quality")
      /\ current_phase' = "quality"
      /\ \E q \in EvaluatorResults :
           /\ quality_result' = q
           /\ \/ pc' = "loop"
              \/ q.feedback = "<model>" /\ pc' = "crashed"
      /\ UNCHANGED <<interview_dialogue, interview_content, biography,
                     biography_versions, historical_context, extracted_anchors>>

\* refine_biography, then evaluate_quality; a backend failure in the rewrite
\* ends run
RunRefineBiography ==
    \E answer \in BackendAnswers :
      /\ Decided(answer, "refine_biography")
      /\ \/ \E text \in BackendTexts, q \in EvaluatorResults :
              /\ biography' = text
              /\ biography_versions' = Append(biography_versions, NewVersion(biography_versions, text, TRUE, "<none>"))
              /\ quality_result' = q
              /\ current_phase' = "quality"
              /\ \/ pc' = "loop"
                 \/ q.feedback = "<model>" /\ pc' = "crashed"
         \/ /\ pc' = "crashed"
            /\ current_phase' = "refine"
            /\ UNCHANGED <<biography, biography_versions, quality_result>>
      /\ UNCHANGED <<interview_dialogue, interview_content, historical_context,
                     extracted_anchors>>

\* a complete branch without its break
RunComplete_NoBreak ==
    \E answer \in BackendAnswers :
      /\ Decided(answer, "complete")
      /\ current_phase' = "completed"
      /\ pc' = "loop"
      /\ UNCHANGED <<interview_dialogue, interview_content, biography,
                     biography_versions, quality_result, historical_context,
                     extracted_anchors>>

\* complete: break
RunComplete ==
    \E answer \in BackendAnswers :
      /\ Decided(answer, "complete")
      /\ current_phase' = "completed"
      /\ pc' = "save"
      /\ UNCHANGED <<interview_dialogue, interview_content, biography,
                     biography_versions, quality_result, historical_context,
                     extracted_anchors>>

\* an else branch without its break
RunUnknownAction_NoBreak ==
    \E answer \in BackendAnswers :
      /\ Decided(answer, DecisionAction(Decide(answer)))
      /\ DecisionAction(Decide(answer)) \notin ActionNames
      /\ pc' = "loop"
      /\ UNCHANGED <<interview_dialogue, interview_content, biography,
                     biography_versions, quality_result, historical_context,
                     extracted_anchors, current_phase>>

\* any other action: break
RunUnknownAction ==
    \E answer \in BackendAnswers :
      /\ Decided(answer, DecisionAction(Decide(answer)))
      /\ DecisionAction(Decide(answer)) \notin ActionNames
      /\ pc' = "save"
      /\ UNCHANGED <<interview_dialogue, interview_content, biography,
                     biography_versions, quality_result, historical_context,
                     extracted_anchors, current_phase>>

\* the while condition fails: the loop ends
RunLoopExit ==
    /\ program = "smart" /\ pc = "loop"
    /\ ~LoopCondition
    /\ pc' = "save"
    /\ UNCHANGED <<program, critic_vars, file_vars, client_vars, gradio_vars, iteration, interview_dialogue, interview_content,
                   biography, biography_versions, quality_result,
                   historical_context, extracted_anchors, current_phase,
                   action_history, history_len, backend_answer, decision>>

\* save_results and the final display
RunSaveResults ==
    /\ program = "smart" /\ pc = "save"
    /\ pc' = "done"
    /\ UNCHANGED <<program, critic_vars, file_vars, client_vars, gradio_vars, iteration, interview_dialogue, interview_content,
                   biography, biography_versions, quality_result,
                   historical_context, extracted_anchors, current_phase,
                   action_history, history_len, backend_answer, decision>>

SmartNext ==
    \/ RunStart
    \/ RunDecideRaises
    \/ RunContinueInterview
    \/ RunEndInterview
    \/ RunExtractEvents
    \/ RunResearchHistory
    \/ RunWriteBiography
    \/ RunEvaluateQuality
    \/ RunRefineBiography
    \/ RunComplete
    \/ RunUnknownAction
    \/ RunLoopExit
    \/ RunSaveResults

----------------------------------------------------------------------------
(* app.py: GradioSAGASession and the handlers.                             *)
(* handle_send_message is three steps, cut at its two awaits (the question  *)
(* backend, the decision backend); the calls suspended there are in         *)
(* sending, and any handler may run meanwhile.  Every other handler is one  *)
(* step, taken where it writes the session after its await.                 *)

SessionIds == 1..Len(active_sessions)

\* a handler call begins on an existing session, within the explored number
\* of calls
Began(sid) ==
    /\ program = "gradio"
    /\ sid \in SessionIds
    /\ calls < MaxCalls
    /\ calls' = calls + 1
    /\ UNCHANGED <<program, critic_vars, file_vars, client_vars, smart_vars>>

\* a handler call that runs as one step
Called(sid) == Began(sid) /\ UNCHANGED sending

\* s without its i-th element
Without(s, i) == SubSeq(s, 1, i - 1) \o SubSeq(s, i + 1, Len(s))

\* session_manager.update_session(sid, updates), updates a session record
Updated(sid, session_data) ==
    active_sessions' = [active_sessions EXCEPT ![sid] = session_data]

\* GradioSAGASession.coordinator_decide_next_action: the snapshot formats
\* overall_score with ':.1f' before the try block
GradioContextBuilds(session_data) ==
    ~(session_data.quality_result.present /\ session_data.quality_result.score = "nonnum")

\* the except branch
GradioFallback(session_data) ==
    IF session_data.biography # "" /\ ~session_data.quality_result.present
    THEN MkDecision("evaluate_quality", "fallback", 90)
    ELSE IF Len(session_data.interview_dialogue) >= WriteMinDialogue
            /\ session_data.biography = ""
    THEN MkDecision("write_biography", "fallback", 85)
    ELSE IF Len(session_data.interview_dialogue) < ExtractMinDialogue
    THEN MkDecision("continue_interview", "fallback", 95)
    ELSE MkDecision("continue_interview", "fallback", 70)

GradioDecide(session_data, answer) ==
    IF answer = "<error>" THEN GradioFallback(session_data)
    ELSE MkDecision(answer, "model", 50)

\* the tuple handle_send_message appends; decision.get("next_action") is None
\* when the key is absent
HistoryEntry(history, d) ==
    [kind |-> "tuple", iteration |-> Len(history) + 1,
     action |-> IF d.next_action = KeyMissing THEN "None" ELSE d.next_action,
     reasoning |-> d.reasoning]

\* create_new_session: a new session holding the opening question
CreateNewSession ==
    /\ program = "gradio"
    /\ Len(active_sessions) < MaxSessions
    /\ calls < MaxCalls
    /\ calls' = calls + 1
    /\ active_sessions' = Append(active_sessions,
            [FreshSession EXCEPT !.interview_dialogue = <<"Interviewer">>,
                                 !.conversation_history = <<"Interviewer">>,
                                 !.interview_content = OpeningLength])
    /\ UNCHANGED <<program, critic_vars, file_vars, client_vars, smart_vars, export_file, sending>>

\* handle_send_message up to its first await: conduct_interview_round stores
\* the user's turn, then asks the backend for the next question.  The
\* dialogue is the session's own list, appended in place; conversation_history
\* is a string read into a local, extended and written back, and the local
\* stays with the suspended call.
SendUserTurn ==
    \E sid \in SessionIds, n \in GradioTurnLengths :
      LET conversation_history == Append(active_sessions[sid].conversation_history, "You") IN
      /\ Began(sid)
      /\ Updated(sid, [active_sessions[sid] EXCEPT
                         !.interview_dialogue = Append(@, "You"),
                         !.conversation_history = conversation_history,
                         !.interview_content = @ + n])
      /\ sending' = Append(sending, [sid |-> sid, at |-> "question",
                                     conversation_history |-> conversation_history])
      /\ UNCHANGED export_file

\* the question backend returns: the question is stored and the decision
\* requested; or it raises, which ends the handler
SendQuestion ==
    \E i \in 1..Len(sending), n \in GradioTurnLengths :
      LET sid == sending[i].sid IN
      /\ program = "gradio"
      /\ sending[i].at = "question"
      /\ \/ /\ Updated(sid, [active_sessions[sid] EXCEPT
                               !.interview_dialogue = Append(@, "Interviewer"),
                               !.conversation_history =
                                   Append(sending[i].conversation_history, "Interviewer"),
                               !.interview_content = @ + n])
            /\ sending' = [sending EXCEPT ![i].at = "decision",
                                          ![i].conversation_history = <<>>]
         \/ /\ sending' = Without(sending, i)
            /\ UNCHANGED active_sessions
      /\ UNCHANGED <<program, critic_vars, file_vars, client_vars, smart_vars, export_file, calls>>

\* coordinator_decide_next_action and the action_history entry, taken as one
\* step; a snapshot that cannot be formatted raises, which ends the handler
SendDecision ==
    \E i \in 1..Len(sending), answer \in BackendAnswers :
      LET sid == sending[i].sid
          session_data == active_sessions[sid]
          d == GradioDecide(session_data, answer)
      IN /\ program = "gradio"
         /\ sending[i].at = "decision"
         /\ IF GradioContextBuilds(session_data)
            THEN Updated(sid, [session_data EXCEPT !.action_history =
                                  Append(@, HistoryEntry(@, d))])
            ELSE UNCHANGED active_sessions
         /\ sending' = Without(sending, i)
         /\ UNCHANGED <<program, critic_vars, file_vars, client_vars, smart_vars, export_file, calls>>

\* handle_coordinator_action("extract_events")
HandleExtractEvents ==
    \E sid \in SessionIds, outcome \in ExtractorOutcomes :
      /\ Called(sid)
      /\ Updated(sid, [active_sessions[sid] EXCEPT
                         !.current_phase = "history_analysis",
                         !.extracted_anchors = extract_event_anchors(outcome)])
      /\ UNCHANGED export_file

\* a research step that stores the contextualizer's result whatever the anchors
GradioResearched_Unguarded(session_data, c) ==
    [session_data EXCEPT
       !.current_phase = "historical_research",
       !.historical_context = c]

\* GradioSAGASession.research_history: without anchors a warning and nothing
\* else; otherwise historical_context is replaced by the contextualizer's result
GradioResearched(session_data, c) ==
    [session_data EXCEPT
       !.current_phase = "historical_research",
       !.historical_context =
           IF session_data.extracted_anchors # "None" THEN c ELSE @]

\* research_history on one session
ResearchHistoryOn(sid) ==
    \E c \in Contexts :
      /\ Called(sid)
      /\ (c = "with_results" => active_sessions[sid].extracted_anchors = "with_queries")
      /\ Updated(sid, GradioResearched(active_sessions[sid], c))
      /\ UNCHANGED export_file

\* handle_coordinator_action("research_history")
HandleResearchHistory == \E sid \in SessionIds : ResearchHistoryOn(sid)

\* GradioSAGASession.write_biography: generate_biography returns the backend's
\* text, or its failure message
GradioWritten(session_data, text) ==
    [session_data EXCEPT
       !.current_phase = "writing",
       !.biography = text,
       !.biography_versions = Append(@, NewVersion(@, text, FALSE, "<none>"))]

\* GradioSAGASession.evaluate_quality: returns early without a biography
GradioEvaluated(session_data, q) ==
    [session_data EXCEPT
       !.current_phase = "quality_assessment",
       !.quality_result = IF session_data.biography = "" THEN @ ELSE q]

\* a tag that counts a score of exactly 7.5 as low
RefinementTag_Inclusive(overall_score) ==
    IF overall_score <= RefineThreshold THEN "comprehensive" ELSE "hero_journey"

\* the "refinement_strategy" refine_biography stores on the new version
RefinementTag(overall_score) ==
    IF overall_score < RefineThreshold THEN "comprehensive" ELSE "hero_journey"

\* the biography_manager method refine_biography calls
RefinementMethod(overall_score) ==
    IF overall_score < RefineThreshold THEN "improve_biography"
    ELSE "enhance_hero_journey_structure"

\* GradioSAGASession.refine_biography: comparing a non-numeric score raises
\* after the phase update; otherwise the rewrite (the old text when its backend
\* fails) becomes a new version tagged with the strategy
GradioRefined(session_data, text) ==
    LET overall_score == OverallScore(session_data.quality_result)
    IN IF session_data.quality_result.score = "nonnum"
       THEN [session_data EXCEPT !.current_phase = "refinement"]
       ELSE [session_data EXCEPT
               !.current_phase = "refinement",
               !.refinement_run = RefinementMethod(overall_score),
               !.biography = text,
               !.biography_versions =
                   Append(@, NewVersion(@, text, TRUE, RefinementTag(overall_score)))]

\* handle_coordinator_action("write_biography")
HandleWriteBiography ==
    \E sid \in SessionIds, text \in GradioWriteTexts :
      /\ Called(sid)
      /\ Updated(sid, GradioWritten(active_sessions[sid], text))
      /\ UNCHANGED export_file

\* handle_coordinator_action("evaluate_quality")
HandleEvaluateQuality ==
    \E sid \in SessionIds, q \in EvaluatorResults :
      /\ Called(sid)
      /\ Updated(sid, GradioEvaluated(active_sessions[sid], q))
      /\ UNCHANGED export_file

\* refine_biography on one session
RefineOn(sid) ==
    \E text \in BackendTexts \cup {active_sessions[sid].biography} :
      /\ Called(sid)
      /\ Updated(sid, GradioRefined(active_sessions[sid], text))
      /\ UNCHANGED export_file

\* handle_coordinator_action("refine_biography")
HandleRefineBiography == \E sid \in SessionIds : RefineOn(sid)

\* handle_coordinator_action("write_and_evaluate")
HandleWriteAndEvaluate ==
    \E sid \in SessionIds, text \in GradioWriteTexts, q \in EvaluatorResults :
      /\ Called(sid)
      /\ Updated(sid, GradioEvaluated(GradioWritten(active_sessions[sid], text), q))
      /\ UNCHANGED export_file

\* handle_coordinator_action with any other name: an error message, no change
HandleUnknownAction ==
    \E sid \in SessionIds :
      /\ Called(sid)
      /\ UNCHANGED <<active_sessions, export_file>>

\* export_session: the document of a session, written as JSON
ExportSession ==
    \E sid \in SessionIds :
      /\ Called(sid)
      /\ export_file' = JsonRoundTrip(export_session_data(sid))
      /\ UNCHANGED active_sessions

\* an import that looks the versions up under a key the document lacks and
\* takes the default []
ImportUpdates_WrongKey(import_data) ==
    [FreshSession EXCEPT
       !.interview_dialogue = import_data.interview.dialogue,
       !.interview_content = import_data.interview.content,
       !.biography = import_data.biography.final_version,
       !.biography_versions = <<>>,
       !.quality_result = import_data.evaluation.quality,
       !.extracted_anchors = import_data.research.extracted_anchors,
       !.historical_context = import_data.research.historical_context,
       !.current_phase = import_data.workflow.current_phase,
       !.action_history = import_data.workflow.action_history]

\* import_session of a document with a "metadata" key: the fields a new
\* session takes from it
ImportUpdates(import_data) ==
    [FreshSession EXCEPT
       !.interview_dialogue = import_data.interview.dialogue,
       !.interview_content = import_data.interview.content,
       !.biography = import_data.biography.final_version,
       !.biography_versions = import_data.biography.all_versions,
       !.quality_result = import_data.evaluation.quality,
       !.extracted_anchors = import_data.research.extracted_anchors,
       !.historical_context = import_data.research.historical_context,
       !.current_phase = import_data.workflow.current_phase,
       !.action_history = import_data.workflow.action_history]

\* import_session of the exported file: a session under a new id
ImportSession ==
    /\ program = "gradio"
    /\ export_file # NoFile
    /\ Len(active_sessions) < MaxSessions
    /\ calls < MaxCalls
    /\ calls' = calls + 1
    /\ active_sessions' = Append(active_sessions, ImportUpdates(export_file))
    /\ UNCHANGED <<program, critic_vars, file_vars, client_vars, smart_vars, export_file, sending>>

GradioNext ==
    \/ CreateNewSession
    \/ SendUserTurn
    \/ SendQuestion
    \/ SendDecision
    \/ HandleExtractEvents
    \/ HandleResearchHistory
    \/ HandleWriteBiography
    \/ HandleEvaluateQuality
    \/ HandleRefineBiography
    \/ HandleWriteAndEvaluate
    \/ HandleUnknownAction
    \/ ExportSession
    \/ ImportSession

----------------------------------------------------------------------------
(* models/client_manager.py: FallbackModelClient.create *)

\* what one call to a client's create can do: return a response, raise, or
\* raise the "different event loop" error
CallOutcomes == {"response", "error", "loop_error"}

\* a loop that runs through one value more
InRange_OneMore(next) == next <= RetryRange

\* the for loop has a next value for its variable
InRange(next) == next < RetryRange

\* create is called
ClientCreate ==
    /\ program = "client" /\ client_pc = "idle"
    /\ client_pc' = "primary"
    /\ attempt' = 0
    /\ UNCHANGED <<program, critic_vars, file_vars, smart_vars, gradio_vars, backup_client,
                   primary_calls, backup_calls>>

\* where create goes when the primary loop is left without a response
AfterPrimary == IF backup_client THEN "backup" ELSE "raised"

\* one pass of the primary loop.  After a loop error whose client is
\* recreated the pass ends with continue; any other failure breaks on the
\* last attempt and retries otherwise.
ClientPrimaryAttempt ==
    \E outcome \in CallOutcomes, recreated \in BOOLEAN :
      /\ program = "client" /\ client_pc = "primary"
      /\ primary_calls' = primary_calls + 1
      /\ IF outcome = "response"
         THEN client_pc' = "returned" /\ UNCHANGED attempt
         ELSE IF outcome = "loop_error" /\ recreated
         THEN IF InRange(attempt + 1)
              THEN attempt' = attempt + 1 /\ UNCHANGED client_pc
              ELSE attempt' = 0 /\ client_pc' = AfterPrimary
         ELSE IF attempt = LastAttempt
              THEN attempt' = 0 /\ client_pc' = AfterPrimary
              ELSE attempt' = attempt + 1 /\ UNCHANGED client_pc
      /\ UNCHANGED <<program, critic_vars, file_vars, smart_vars, gradio_vars, backup_client, backup_calls>>

\* one pass of the backup loop.  The last attempt raises; a loop that runs
\* out after continue falls off the end of create, which returns None.
ClientBackupAttempt ==
    \E outcome \in CallOutcomes, recreated \in BOOLEAN :
      /\ program = "client" /\ client_pc = "backup"
      /\ backup_calls' = backup_calls + 1
      /\ IF outcome = "response"
         THEN client_pc' = "returned" /\ UNCHANGED attempt
         ELSE IF outcome = "loop_error" /\ recreated
         THEN IF InRange(attempt + 1)
              THEN attempt' = attempt + 1 /\ UNCHANGED client_pc
              ELSE client_pc' = "returned_none" /\ UNCHANGED attempt
         ELSE IF attempt = LastAttempt
              THEN client_pc' = "raised" /\ UNCHANGED attempt
              ELSE attempt' = attempt + 1 /\ UNCHANGED client_pc
      /\ UNCHANGED <<program, critic_vars, file_vars, smart_vars, gradio_vars, backup_client, primary_calls>>

ClientNext ==
    \/ ClientCreate
    \/ ClientPrimaryAttempt
    \/ ClientBackupAttempt

Next == SmartNext \/ GradioNext \/ ClientNext

Spec == Init /\ [][Next]_vars

----------------------------------------------------------------------------
(* Properties *)

\* one iteration of run's loop, whatever it dispatches
RunIteration ==
    \/ RunDecideRaises
    \/ RunContinueInterview
    \/ RunEndInterview
    \/ RunExtractEvents
    \/ RunResearchHistory
    \/ RunWriteBiography
    \/ RunEvaluateQuality
    \/ RunRefineBiography
    \/ RunComplete
    \/ RunUnknownAction

\* a step of run that records an action
SmartRecords == program = "smart" /\ history_len' = history_len + 1

\* the action run recorded last
LastRecorded == Last(action_history)[2]

\* the two recorded actions before a step are the same action a
TwoInARow(a) ==
    /\ Len(action_history) >= 2
    /\ action_history[Len(action_history)][2] = a
    /\ action_history[Len(action_history) - 1][2] = a

\* no three consecutive entries of a Gradio session's action_history name the
\* same action
GradioNoTriple ==
    \A sid \in SessionIds :
      LET h == active_sessions[sid].action_history IN
      \A i \in 1..(Len(h) - 2) :
        ~(h[i].action = h[i + 1].action /\ h[i + 1].action = h[i + 2].action)

\* C1: the sequence of recorded actions never holds the same action three
\* times in a row: no step of run records the action of the two entries before
\* it, and no Gradio session's action_history holds three equal neighbours.
C1_NoTripleRepeat ==
    [][/\ (SmartRecords => ~TwoInARow(LastRecorded'))
       /\ GradioNoTriple']_vars

\* C2: run performs at most max_iterations iterations and then stops: the
\* counter never passes the cap, it counts every recorded action, and at the
\* cap no iteration can start while leaving the loop can.
C2_Termination ==
    program = "smart" =>
      /\ iteration <= max_iterations
      /\ history_len <= iteration
      /\ (pc = "loop" /\ iteration >= max_iterations) =>
            (~ENABLED RunIteration /\ ENABLED RunLoopExit)

\* C2 happens: the cap ended a loop whose last action was a dispatched action
\* other than complete
C2_CapReached ==
    /\ program = "smart" /\ pc = "save"
    /\ iteration = max_iterations
    /\ history_len = max_iterations
    /\ LastRecorded \in ActionNames \ {"complete"}

\* C6: when the decision backend fails and the fallback's action equals the
\* last two recorded actions, the guard's override is what the iteration
\* records.
C6_GuardOnFallback ==
    [][(/\ SmartRecords
        /\ backend_answer' = "<error>"
        /\ GuardFires(SmartFallback.next_action))
       => decision' = GuardOverride]_vars

\* C7: a decision the guard substituted names an action other than the one
\* the backend proposed.
C7_OverrideDiffers ==
    (program = "smart" /\ decision.reasoning = "repeat")
      => decision.next_action # backend_answer

\* versions[i].version = i + 1 for the 0-based index i
VersionsNumbered(versions) ==
    \A i \in 1..Len(versions) : versions[i].version = i

\* every entry of old is still in new, at its place and unchanged
VersionsKept(old, new) ==
    /\ Len(new) >= Len(old)
    /\ \A i \in 1..Len(old) : new[i] = old[i]

\* C3: in the Smart session and in every Gradio session, whatever the order of
\* writes and refinements, biography_versions is numbered 1, 2, ... by
\* position, and no step changes, renumbers or removes an existing entry.
C3_VersionMonotonicity ==
    /\ [](/\ VersionsNumbered(biography_versions)
          /\ \A sid \in SessionIds :
               VersionsNumbered(active_sessions[sid].biography_versions))
    /\ [][/\ VersionsKept(biography_versions, biography_versions')
          /\ \A sid \in SessionIds :
               VersionsKept(active_sessions[sid].biography_versions,
                            active_sessions'[sid].biography_versions)]_vars

\* C3 happens: a written version, its refinement, and a version written after
\* the refinement
C3_WriteRefineWrite ==
    /\ program = "smart"
    /\ Len(biography_versions) = 3
    /\ ~biography_versions[1].refined
    /\ biography_versions[2].refined
    /\ ~biography_versions[3].refined

\* a step of run that dispatches refine_biography
SmartRefineDispatched ==
    SmartRecords /\ DecisionAction(decision') = "refine_biography"

\* a step in which handle_coordinator_action runs refine_biography on sid
GradioRefineDispatched(sid) ==
    /\ program = "gradio"
    /\ calls' = calls + 1
    /\ active_sessions'[sid].current_phase = "refinement"
    /\ \/ active_sessions[sid].current_phase # "refinement"
       \/ Len(active_sessions'[sid].biography_versions) >
            Len(active_sessions[sid].biography_versions)

\* C4: refine_biography is dispatched only when an evaluation has already set
\* quality_result, in run and in handle_coordinator_action.
C4_EvaluateBeforeRefine ==
    [][/\ (SmartRefineDispatched => quality_result.present)
       /\ \A sid \in SessionIds :
            GradioRefineDispatched(sid) => active_sessions[sid].quality_result.present]_vars

\* a decision carrying the three fields, its action one of the eight
ValidDecision(d) ==
    /\ DOMAIN d = {"next_action", "reasoning", "confidence"}
    /\ d.next_action \in ActionNames
    /\ d.reasoning = "fallback"
    /\ d.confidence \in 1..100

\* C5: in every state in which the except branch can run (the snapshot before
\* the try block was built), the rule-based fallback of the Smart session and
\* of every Gradio session returns a decision with next_action, reasoning and
\* confidence, its next_action one of the eight action names; it never raises.
C5_FallbackValid ==
    /\ (program = "smart" /\ ContextBuilds) => ValidDecision(SmartFallback)
    /\ \A sid \in SessionIds :
         GradioContextBuilds(active_sessions[sid])
           => ValidDecision(GradioFallback(active_sessions[sid]))

\* C5 happens: the backend failed on a session with anchors, context and an
\* evaluated biography, and the iteration recorded the fallback's decision
C5_FallbackRan ==
    /\ program = "smart"
    /\ backend_answer = "<error>"
    /\ decision.reasoning = "fallback"
    /\ LastRecorded = decision.next_action
    /\ extracted_anchors # "None"
    /\ biography # "" /\ quality_result.present

\* C8: an iteration whose backend answer is not a decision with a valid
\* next_action (an error or non-JSON text, no next_action key, an action
\* outside the eight) records the fallback's decision.
C8_MalformedTriggersFallback ==
    (program = "smart" /\ backend_answer \in {"<error>", KeyMissing, BogusAction})
      => (decision.reasoning = "fallback" /\ decision.next_action \in ActionNames)

\* the five fields the round trip is said to keep
RoundTripFields(session_data) ==
    <<session_data.interview_dialogue, session_data.biography_versions,
      session_data.quality_result, session_data.extracted_anchors,
      session_data.historical_context>>

\* C9: for every session, the document export_session_data builds, written and
\* read back as JSON, imports to a session equal to the original in
\* interview_dialogue, biography_versions, quality_result, extracted_anchors
\* and historical_context; export and import leave every existing session
\* unchanged, and import stores the session under a new id.
C9_RoundTrip ==
    /\ [](\A sid \in SessionIds :
            RoundTripFields(ImportUpdates(JsonRoundTrip(export_session_data(sid))))
              = RoundTripFields(active_sessions[sid]))
    /\ [][(ExportSession \/ ImportSession) =>
            /\ \A sid \in SessionIds : active_sessions'[sid] = active_sessions[sid]
            /\ ImportSession =>
                 /\ Len(active_sessions') = Len(active_sessions) + 1
                 /\ RoundTripFields(Last(active_sessions'))
                      = <<export_file.interview.dialogue,
                          export_file.biography.all_versions,
                          export_file.evaluation.quality,
                          export_file.research.extracted_anchors,
                          export_file.research.historical_context>>]_vars

\* C9 happens: session 2 was imported from the export of session 1, which
\* holds a dialogue, a version, an evaluation, and is as it was
C9_Imported ==
    /\ program = "gradio"
    /\ Len(active_sessions) = 2
    /\ export_file # NoFile
    /\ export_file.metadata.session_id = 1
    /\ active_sessions[2].current_phase = "quality_assessment"
    /\ Len(active_sessions[2].biography_versions) >= 1
    /\ active_sessions[2].quality_result.present
    /\ RoundTripFields(active_sessions[2]) = RoundTripFields(active_sessions[1])

\* the fallback's action for an evaluated biography with a numeric score
RefineOrComplete(q) ==
    IF OverallScore(q) < QualityThreshold THEN "refine_biography" ELSE "complete"

\* C10: with a biography that has been evaluated, the fallback of the Smart
\* session and of every Gradio session returns refine_biography for a score
\* below the threshold and complete for a score at or above it.
C10_FallbackRefineOrComplete ==
    /\ (program = "smart" /\ biography # "" /\ quality_result.present
          /\ quality_result.score = "num")
         => SmartFallback.next_action = RefineOrComplete(quality_result)
    /\ \A sid \in SessionIds :
         LET session_data == active_sessions[sid] IN
         (session_data.biography # "" /\ session_data.quality_result.present
            /\ session_data.quality_result.score = "num")
           => GradioFallback(session_data).next_action
                = RefineOrComplete(session_data.quality_result)

\* the phase a completed executor of run leaves behind (refine_biography is
\* followed by evaluate_quality)
ExecutorPhase(a) ==
    CASE a = "continue_interview" -> "interview"
      [] a = "end_interview"      -> "post_interview"
      [] a = "extract_events"     -> "history"
      [] a = "research_history"   -> "history"
      [] a = "write_biography"    -> "writing"
      [] a = "evaluate_quality"   -> "quality"
      [] a = "refine_biography"   -> "quality"
      [] a = "complete"           -> "completed"
      [] OTHER                    -> "<no executor>"

\* the phase an executor of GradioSAGASession sets first
GradioExecutorPhase(a) ==
    CASE a = "extract_events"     -> "history_analysis"
      [] a = "research_history"   -> "historical_research"
      [] a = "write_biography"    -> "writing"
      [] a = "evaluate_quality"   -> "quality_assessment"
      [] a = "refine_biography"   -> "refinement"
      [] OTHER                    -> "<no executor>"

\* a step of handle_send_message that appends an entry to sid's action_history
GradioRecords(sid) ==
    /\ program = "gradio"
    /\ Len(active_sessions'[sid].action_history)
         = Len(active_sessions[sid].action_history) + 1

\* C11: an action appended to action_history is dispatched to its executor in
\* the same iteration and the executor's update is applied before the next
\* decision: a step of run that records an action and goes on leaves the
\* executor's phase, and a handle_send_message step that records an action
\* with an executor of its own leaves that executor's phase.
C11_RecordedIsDispatched ==
    [][/\ (SmartRecords /\ pc' # "crashed")
            => current_phase' = ExecutorPhase(LastRecorded')
       /\ \A sid \in SessionIds :
            LET a == Last(active_sessions'[sid].action_history).action IN
            (GradioRecords(sid) /\ GradioExecutorPhase(a) # "<no executor>")
              => active_sessions'[sid].current_phase = GradioExecutorPhase(a)]_vars

\* C12: a backend failure inside a dispatched executor never ends run's loop:
\* run never stops on an exception in an iteration whose action was recorded.
C12_ExecutorFailureAbsorbed ==
    ~(program = "smart" /\ pc = "crashed" /\ history_len = iteration)

\* no version of the session holds generate_biography's failure message
NoFailureVersion(versions) ==
    \A i \in 1..Len(versions) : versions[i].content # "Biography generation failed"

\* C13: a backend failure during write_biography or refine_biography appends
\* nothing to biography_versions: a step of run that ends in the executor's
\* exception leaves the list as it was, and no Gradio session's list holds an
\* entry made of the writer's failure message.
C13_NoVersionOnFailure ==
    [][/\ (SmartRecords /\ pc' = "crashed")
            => biography_versions' = biography_versions
       /\ \A sid \in SessionIds :
            NoFailureVersion(active_sessions'[sid].biography_versions)]_vars

\* what new holds includes what old held: {} is included in everything, a
\* context without results in every contextualizer result
ContextIncluded(old, new) ==
    \/ old = "{}"
    \/ old = "no_results" /\ new \in Contexts
    \/ old = "with_results" /\ new = "with_results"

\* C14: historical_context never shrinks: whatever a step does (a
\* research_history whose searches fail or return nothing included), the keys
\* and search results it held before are still held after, in run and in
\* every Gradio session.
C14_ContextNeverShrinks ==
    [][/\ ContextIncluded(historical_context, historical_context')
       /\ \A sid \in SessionIds :
            ContextIncluded(active_sessions[sid].historical_context,
                            active_sessions'[sid].historical_context)]_vars

\* C15: in every reachable state, a set quality_result implies that a
\* biography version exists, in run and in every Gradio session.
C15_QualityImpliesVersion ==
    /\ quality_result.present => Len(biography_versions) >= 1
    /\ \A sid \in SessionIds :
         active_sessions[sid].quality_result.present
           => Len(active_sessions[sid].biography_versions) >= 1

\* the entries of run's action_history that are kept carry the numbers of
\* their positions in the full list
HistoryNumbered ==
    /\ Len(action_history) = IF history_len < GuardWindow THEN history_len
                             ELSE GuardWindow
    /\ \A j \in 1..Len(action_history) :
         action_history[j][1] = history_len - Len(action_history) + j

\* a recording step keeps every earlier entry that is still in the window
HistoryKept ==
    /\ Len(action_history) < GuardWindow =>
         SubSeq(action_history', 1, Len(action_history)) = action_history
    /\ Len(action_history) = GuardWindow =>
         SubSeq(action_history', 1, GuardWindow - 1) = Tail(action_history)

Suspended(sid) == \E i \in 1..Len(sending) : sending[i].sid = sid

\* C17: no two state-mutating operations on one session overlap: no handler
\* call begins and changes a session's state while a handler of that session
\* is suspended at an await.
C17_SingleWriter ==
    [][\A sid \in SessionIds :
         (calls' = calls + 1 /\ active_sessions'[sid] # active_sessions[sid])
           => ~Suspended(sid)]_vars

\* C18: create makes at most 3 attempts on the primary model, tries the backup
\* model only after the primary attempts are used up and then at most 3
\* times, and finishes after at most 6 attempts: every step of a call makes
\* one attempt, and an unfinished call can always take its next step.
C18_BoundedRetry ==
    /\ [](/\ primary_calls <= RetryRange
          /\ backup_calls <= RetryRange
          /\ primary_calls + backup_calls <= 2 * RetryRange
          /\ backup_calls > 0 => (backup_client /\ primary_calls = RetryRange)
          /\ client_pc = "backup" => primary_calls = RetryRange
          /\ client_pc \in {"primary", "backup"} =>
               ENABLED (ClientPrimaryAttempt \/ ClientBackupAttempt))
    /\ [][(client_pc \in {"primary", "backup"}) =>
            (primary_calls' + backup_calls' = primary_calls + backup_calls + 1)]_vars

\* C18 happens: both models failed on every attempt and create raised
C18_AllAttemptsFailed ==
    /\ program = "client"
    /\ client_pc = "raised"
    /\ primary_calls = RetryRange /\ backup_calls = RetryRange

\* the critic's result is its sentinel
Sentinel(q) ==
    /\ q.present
    /\ q.score = "num" /\ q.overall_score = 0
    /\ ~q.meets_standard

\* C19: the critic answers a failed backend call and an unparseable output with
\* the sentinel (overall_score 0, meets_standard false); in the Smart run the
\* evaluate_quality step that stores it goes on to the next iteration, and the
\* rule-based decision taken on a stored sentinel with a biography present is
\* refine_biography
C19_SentinelOnFailure ==
    /\ [](/\ \A outcome \in CriticFailures : Sentinel(evaluate_biography_quality(outcome))
          /\ (program = "smart" /\ quality_result.feedback \in {"Assessment failed", "Assessment error"})
               => /\ Sentinel(quality_result)
                  /\ ContextBuilds
                  /\ biography # "" => SmartFallback.next_action = "refine_biography")
    /\ [][(/\ SmartRecords
           /\ LastRecorded' = "evaluate_quality"
           /\ quality_result'.feedback \in {"Assessment failed", "Assessment error"})
            => pc' = "loop"]_vars

\* a failed assessment of an existing biography is stored and the run goes on
C19_SentinelStored ==
    /\ program = "smart" /\ pc = "loop"
    /\ Len(action_history) > 0 /\ LastRecorded = "evaluate_quality"
    /\ quality_result.feedback = "Assessment error"
    /\ biography # ""
    /\ SmartFallback.next_action = "refine_biography"

\* C20: the extractor answers a failed backend call, an answer without a JSON
\* object and an unparseable one with the structure of empty anchor lists; in
\* the Smart run the extract_events step stores an anchors structure (never
\* None), and the step that stores the empty one goes on to the next iteration
C20_EmptyAnchorsOnFailure ==
    /\ [](\A outcome \in FailureKinds : extract_event_anchors(outcome) = "empty_lists")
    /\ [][(SmartRecords /\ LastRecorded' = "extract_events")
            => /\ extracted_anchors' \in Anchors
               /\ extracted_anchors' = "empty_lists" => pc' = "loop"]_vars

\* an extraction that gave the empty structure, after which the run goes on
C20_EmptyAnchorsStored ==
    /\ program = "smart" /\ pc = "loop"
    /\ Len(action_history) > 0 /\ LastRecorded = "extract_events"
    /\ extracted_anchors = "empty_lists"

\* the data fields of the Smart session are left as they are
SmartDataUnchanged ==
    UNCHANGED <<interview_dialogue, interview_content, extracted_anchors,
                historical_context, biography, biography_versions, quality_result>>

\* C21: research_history dispatched while extracted_anchors is None changes
\* no data field (in the Gradio session nothing but current_phase), raises
\* nothing, and the Smart run goes on to its next iteration
C21_ResearchWithoutAnchors ==
    /\ [][(SmartRecords /\ LastRecorded' = "research_history" /\ extracted_anchors = "None")
            => (SmartDataUnchanged /\ pc' = "loop")]_vars
    /\ [][\A sid \in SessionIds :
            (ResearchHistoryOn(sid) /\ active_sessions[sid].extracted_anchors = "None")
              => active_sessions' =
                   [active_sessions EXCEPT ![sid].current_phase = "historical_research"]]_vars

\* research_history has run without anchors and the run goes on
C21_ResearchedWithoutAnchors ==
    /\ program = "smart" /\ pc = "loop"
    /\ Len(action_history) > 0 /\ LastRecorded = "research_history"
    /\ extracted_anchors = "None"
    /\ historical_context = "{}"

\* the Smart session holds nothing yet
SmartFresh ==
    /\ program = "smart"
    /\ interview_dialogue = <<>>
    /\ biography = ""
    /\ ~quality_result.present
    /\ extracted_anchors = "None"
    /\ historical_context = "{}"

\* C22: on a session with an empty dialogue, no biography, no evaluation, no
\* anchors and no historical context the rule-based fallback of either program
\* returns continue_interview with confidence at least 0.9, and an iteration of
\* run whose decision backend fails there records that decision
C22_FreshContinues ==
    /\ [](/\ SmartFresh => /\ SmartFallback.next_action = "continue_interview"
                           /\ SmartFallback.confidence >= 90
          /\ GradioFallback(FreshSession).next_action = "continue_interview"
          /\ GradioFallback(FreshSession).confidence >= 90)
    /\ [][(SmartFresh /\ SmartRecords /\ backend_answer' = "<error>")
            => /\ decision'.next_action = "continue_interview"
               /\ decision'.confidence >= 90
               /\ LastRecorded' = "continue_interview"]_vars

\* the first iteration of run, taken with a failing decision backend
C22_FirstDecisionFellBack ==
    /\ program = "smart" /\ iteration = 1 /\ history_len = 1
    /\ backend_answer = "<error>"
    /\ decision = MkDecision("continue_interview", "fallback", 95)
    /\ Len(interview_dialogue) = 2

----------------------------------------------------------------------------
(* One call of SmartInteractiveSession.coordinator_decide_next_action, on a *)
(* session that run has brought to some later iteration.                    *)

\* run's own cap on iterations
CodeMaxIterations == 50
\* characters one round adds to interview_content: a terse or a talkative subject
RoundLengths == {50, 400}

\* the dialogue after a number of rounds
DialogueAfter(rounds) ==
    [i \in 1..(2 * rounds) |-> IF i % 2 = 1 THEN "Interviewer" ELSE "You"]

\* the versions the session holds: those of the last two actions, or one
\* written earlier
VersionsAfter(wrote, text, b, a) ==
    LET first == IF b \in {"write_biography", "refine_biography"}
                 THEN <<NewVersion(<<>>, text, b = "refine_biography", "<none>")>>
                 ELSE <<>>
        both == IF a \in {"write_biography", "refine_biography"}
                THEN Append(first, NewVersion(first, text, a = "refine_biography", "<none>"))
                ELSE first
    IN IF both # <<>> THEN both
       ELSE IF wrote THEN <<NewVersion(<<>>, text, FALSE, "<none>")>>
       ELSE <<>>

\* what an executed action has left in the session
LeftBy(x, rounds, wrote, q, anchors) ==
    /\ x = "continue_interview" => rounds >= 1
    /\ x = "extract_events" => anchors # "None"
    /\ x \in {"write_biography", "refine_biography"} => wrote
    /\ x \in {"evaluate_quality", "refine_biography"} => q.present

\* a session after its last two iterations dispatched b and then a
DecideInit ==
    /\ program = "smart"
    /\ GradioInit
    /\ ClientInit
    /\ CriticInit
    /\ FileInit
    /\ pc = "loop"
    /\ backend_answer = "<none>"
    /\ decision = NoDecision
    /\ \E rounds \in 0..MaxRounds, per \in RoundLengths, wrote \in BOOLEAN,
          q \in {NoQuality} \cup EvaluatorResults,
          anchors \in {"None"} \cup Anchors, c \in {"{}"} \cup Contexts,
          a \in ActionNames \ {"complete"}, b \in ActionNames \ {"complete"} :
         LET n == 2 * rounds + 6 IN
         /\ n < CodeMaxIterations
         /\ c # "{}" => anchors # "None"
         /\ c = "with_results" => anchors = "with_queries"
         /\ LeftBy(a, rounds, wrote, q, anchors)
         /\ LeftBy(b, rounds, wrote, q, anchors)
         /\ a = "research_history" => (anchors = "None" \/ c # "{}")
         /\ b = "research_history" => (anchors = "None" \/ c # "{}" \/ a = "extract_events")
         /\ iteration = n
         /\ history_len = n
         /\ action_history = <<<<n - 1, b, "model">>, <<n, a, "model">>>>
         /\ interview_dialogue = DialogueAfter(rounds)
         /\ interview_content = rounds * per
         /\ biography = IF wrote THEN "text" ELSE ""
         /\ biography_versions = VersionsAfter(wrote, "text", b, a)
         /\ quality_result = q
         /\ extracted_anchors = anchors
         /\ historical_context = c
         /\ current_phase = ExecutorPhase(a)

\* the call returns a decision for the backend's answer
CoordinatorDecides ==
    /\ program = "smart" /\ pc = "loop"
    /\ ContextBuilds
    /\ \E answer \in BackendAnswers :
         /\ backend_answer' = answer
         /\ decision' = Decide(answer)
    /\ pc' = "decided"
    /\ UNCHANGED <<program, critic_vars, file_vars, client_vars, gradio_vars, iteration, interview_dialogue,
                   interview_content, biography, biography_versions, quality_result,
                   historical_context, extracted_anchors, current_phase,
                   action_history, history_len>>

\* the state snapshot cannot be formatted: the call raises
CoordinatorRaises ==
    /\ program = "smart" /\ pc = "loop"
    /\ ~ContextBuilds
    /\ pc' = "crashed"
    /\ UNCHANGED <<program, critic_vars, file_vars, client_vars, gradio_vars, iteration, interview_dialogue,
                   interview_content, biography, biography_versions, quality_result,
                   historical_context, extracted_anchors, current_phase,
                   action_history, history_len, backend_answer, decision>>

DecideNext == CoordinatorDecides \/ CoordinatorRaises

DecideSpec == DecideInit /\ [][DecideNext]_vars

\* eight rounds have been held and nothing else is stored
EightRoundsOnly ==
    /\ Len(interview_dialogue) = 2 * 8
    /\ extracted_anchors = "None"
    /\ biography = ""
    /\ historical_context = "{}"

\* C23: with 8 interview rounds, no anchors, no biography and no historical
\* context the rule-based fallback returns extract_events when the interview
\* text has at most 1500 characters and write_biography when it has more (the
\* write rule is tested first), and a call whose backend fails returns that
C23_WriteBeforeExtract ==
    /\ [](EightRoundsOnly =>
            SmartFallback.next_action =
              IF interview_content > 1500 THEN "write_biography" ELSE "extract_events")
    /\ [][(EightRoundsOnly /\ pc' = "decided" /\ backend_answer' = "<error>")
            => decision'.next_action =
                 IF interview_content > 1500 THEN "write_biography"
                 ELSE "extract_events"]_vars

\* the fallback has answered extract_events after eight terse rounds
C23_EightShortRounds ==
    /\ pc = "decided" /\ backend_answer = "<error>"
    /\ EightRoundsOnly
    /\ interview_content <= 1500
    /\ decision.next_action = "extract_events"

\* the nine phase tags
Phases == {"starting", "interview", "post_interview", "history_analysis",
           "historical_research", "writing", "quality_assessment", "refinement",
           "completed"}

\* C24: in every reachable state the phase of the Smart session and of every
\* Gradio session is one of the nine phase tags
C24_PhaseInEnum ==
    /\ current_phase \in Phases
    /\ \A sid \in SessionIds : active_sessions[sid].current_phase \in Phases

\* run has left its loop: no decision is requested and no executor runs
LoopLeft ==
    (program = "smart" /\ pc \in {"save", "done"})
      => /\ pc' \in {"save", "done"}
         /\ SmartDataUnchanged
         /\ UNCHANGED <<iteration, history_len, action_history, decision,
                        backend_answer, current_phase>>

\* C25: the iteration that dispatches complete leaves the loop with dialogue,
\* interview text, extracted_anchors, historical_context, biography_versions
\* and quality_result as they were, and after the loop is left no decision is
\* requested and no executor runs
C25_CompleteTerminates ==
    /\ [][(SmartRecords /\ LastRecorded' = "complete")
            => (SmartDataUnchanged /\ pc' = "save")]_vars
    /\ [][LoopLeft]_vars

\* run has ended on complete before the cap, holding a biography version
C25_CompletedEarly ==
    /\ program = "smart" /\ pc = "done"
    /\ Len(action_history) > 0 /\ LastRecorded = "complete"
    /\ iteration < max_iterations
    /\ Len(biography_versions) > 0

\* C26: the iteration whose action is not one of the eight ActionNames leaves
\* the loop without running an executor (no data field and no phase change),
\* and no iteration follows
C26_UnknownActionTerminates ==
    /\ [][(SmartRecords /\ LastRecorded' \notin ActionNames)
            => (SmartDataUnchanged /\ UNCHANGED current_phase /\ pc' = "save")]_vars
    /\ [][(program = "smart" /\ pc \in {"save", "done"})
            => UNCHANGED <<iteration, history_len>>]_vars

\* run has ended on an unknown action before the cap
C26_EndedOnUnknown ==
    /\ program = "smart" /\ pc = "done"
    /\ Len(action_history) > 0 /\ LastRecorded = BogusAction
    /\ iteration < max_iterations
    /\ history_len = iteration

\* handle_send_message has stored the user's turn of a round on session sid
UserTurnStored(sid) ==
    /\ calls' = calls + 1
    /\ Len(sending') = Len(sending) + 1
    /\ Last(sending').sid = sid

\* the question of a round suspended on session sid has been stored
QuestionStored(sid) ==
    \E i \in 1..Len(sending) :
      /\ sending[i].sid = sid
      /\ sending[i].at = "question"
      /\ sending' = [sending EXCEPT ![i].at = "decision",
                                    ![i].conversation_history = <<>>]

\* C27: a continue_interview execution that succeeds appends one interviewer
\* turn and one subject turn to the dialogue and their text to the interview
\* text, and changes nothing else: in the Smart run in one step, in the Gradio
\* session the subject's turn before the question backend is called and the
\* interviewer's turn when it has answered, each with a write of the prompt
\* transcript conversation_history
C27_RoundAppendsTwoTurns ==
    /\ [][(SmartRecords /\ LastRecorded' = "continue_interview" /\ pc' = "loop")
            => /\ interview_dialogue' = interview_dialogue \o <<"Interviewer", "You">>
               /\ Len(interview_dialogue') = Len(interview_dialogue) + 2
               /\ interview_content' > interview_content
               /\ UNCHANGED <<extracted_anchors, historical_context, biography,
                              biography_versions, quality_result>>]_vars
    /\ [][\A sid \in SessionIds :
            /\ UserTurnStored(sid) =>
                 \E n \in GradioTurnLengths :
                   active_sessions' = [active_sessions EXCEPT
                      ![sid].interview_dialogue = Append(@, "You"),
                      ![sid].conversation_history =
                          active_sessions'[sid].conversation_history,
                      ![sid].interview_content = @ + n]
            /\ QuestionStored(sid) =>
                 \E n \in GradioTurnLengths :
                   active_sessions' = [active_sessions EXCEPT
                      ![sid].interview_dialogue = Append(@, "Interviewer"),
                      ![sid].conversation_history =
                          active_sessions'[sid].conversation_history,
                      ![sid].interview_content = @ + n]]_vars

\* two rounds have been held in the Smart run
C27_TwoRoundsHeld ==
    /\ program = "smart" /\ pc = "loop"
    /\ Len(action_history) > 0 /\ LastRecorded = "continue_interview"
    /\ interview_dialogue = <<"Interviewer", "You", "Interviewer", "You">>
    /\ iteration = 2

\* a step in which coordinator_decide_next_action returned from its try branch
ModelPath ==
    /\ program = "smart"
    /\ backend_answer' # "<error>"
    /\ (history_len' = history_len + 1 \/ pc' = "decided")

\* C28: on the model-decision path the decision is the guard's replacement
\* when action_history has at least two entries and its last two actions both
\* equal the proposed next_action, and the parsed decision unchanged in every
\* other case
C28_GuardIffTwoRepeats ==
    [][ModelPath =>
         IF history_len >= 2 /\ TwoInARow(backend_answer')
         THEN decision' = GuardOverride /\ decision'.reasoning = "repeat"
         ELSE decision' = MkDecision(backend_answer', "model", 50)]_vars

\* the guard has replaced a third write_biography in a row
C28_GuardReplaced ==
    /\ program = "smart"
    /\ backend_answer = "write_biography"
    /\ decision.reasoning = "repeat"
    /\ iteration = 3

\* interview rounds held: one interviewer turn plus one subject turn each
Rounds == Len(interview_dialogue) \div 2

----------------------------------------------------------------------------
(* SmartInteractiveSession.run under its own cap of 50 iterations, when     *)
(* every call of the decision backend fails, every executor succeeds and    *)
(* every evaluation finds the biography good enough.                        *)

\* evaluations that meet the fallback's threshold
GoodEvaluations ==
    {q \in EvaluatorResults : q.score = "num" /\ q.overall_score >= QualityThreshold}

\* texts of a writer that succeeds
WrittenTexts == BackendTexts \ {""}

\* the executor of an action runs to its end
ExecutorSucceeds(action) ==
    IF action = "continue_interview"
    THEN /\ \E n \in TurnLengths : interview_content' = interview_content + n
         /\ interview_dialogue' = interview_dialogue \o RoundTurns
         /\ current_phase' = "interview"
         /\ pc' = "loop"
         /\ UNCHANGED <<biography, biography_versions, quality_result,
                        historical_context, extracted_anchors>>
    ELSE IF action = "end_interview"
    THEN /\ current_phase' = "post_interview"
         /\ pc' = "loop"
         /\ UNCHANGED <<interview_dialogue, interview_content, biography,
                        biography_versions, quality_result, historical_context,
                        extracted_anchors>>
    ELSE IF action = "extract_events"
    THEN /\ \E outcome \in ExtractorOutcomes :
              extracted_anchors' = extract_event_anchors(outcome)
         /\ current_phase' = "history"
         /\ pc' = "loop"
         /\ UNCHANGED <<interview_dialogue, interview_content, biography,
                        biography_versions, quality_result, historical_context>>
    ELSE IF action = "research_history"
    THEN /\ IF extracted_anchors # "None"
            THEN \E c \in Contexts :
                   /\ (c = "with_results" => extracted_anchors = "with_queries")
                   /\ historical_context' = c
            ELSE UNCHANGED historical_context
         /\ current_phase' = "history"
         /\ pc' = "loop"
         /\ UNCHANGED <<interview_dialogue, interview_content, biography,
                        biography_versions, quality_result, extracted_anchors>>
    ELSE IF action = "write_biography"
    THEN /\ \E text \in WrittenTexts :
              /\ biography' = text
              /\ biography_versions' =
                   Append(biography_versions,
                          NewVersion(biography_versions, text, FALSE, "<none>"))
         /\ current_phase' = "writing"
         /\ pc' = "loop"
         /\ UNCHANGED <<interview_dialogue, interview_content, quality_result,
                        historical_context, extracted_anchors>>
    ELSE IF action = "evaluate_quality"
    THEN /\ \E q \in GoodEvaluations : quality_result' = q
         /\ current_phase' = "quality"
         /\ pc' = "loop"
         /\ UNCHANGED <<interview_dialogue, interview_content, biography,
                        biography_versions, historical_context, extracted_anchors>>
    ELSE IF action = "refine_biography"
    THEN /\ \E text \in WrittenTexts, q \in GoodEvaluations :
              /\ biography' = text
              /\ biography_versions' =
                   Append(biography_versions,
                          NewVersion(biography_versions, text, TRUE, "<none>"))
              /\ quality_result' = q
         /\ current_phase' = "quality"
         /\ pc' = "loop"
         /\ UNCHANGED <<interview_dialogue, interview_content, historical_context,
                        extracted_anchors>>
    ELSE /\ current_phase' = IF action = "complete" THEN "completed" ELSE current_phase
         /\ pc' = "save"
         /\ UNCHANGED <<interview_dialogue, interview_content, biography,
                        biography_versions, quality_result, historical_context,
                        extracted_anchors>>

\* the subject has answered 'y'
FailingBackendInit ==
    /\ program = "smart"
    /\ SmartInit
    /\ GradioInit
    /\ ClientInit
    /\ CriticInit
    /\ FileInit

\* run is entered
FailingBackendStart ==
    /\ program = "smart" /\ pc = "start"
    /\ pc' = "loop"
    /\ UNCHANGED <<program, critic_vars, file_vars, client_vars, gradio_vars, iteration, interview_dialogue,
                   interview_content, biography, biography_versions, quality_result,
                   historical_context, extracted_anchors, current_phase,
                   action_history, history_len, backend_answer, decision>>

\* one iteration of the loop: the decision backend fails, the except branch
\* decides, the action is recorded and its executor runs to its end
FailingBackendIteration ==
    /\ program = "smart" /\ pc = "loop"
    /\ iteration < CodeMaxIterations
    /\ ContextBuilds
    /\ iteration' = iteration + 1
    /\ backend_answer' = "<error>"
    /\ decision' = SmartFallback
    /\ action_history' =
         Tail_n(Append(action_history,
                       <<iteration + 1, DecisionAction(SmartFallback),
                         SmartFallback.reasoning>>),
                GuardWindow)
    /\ history_len' = history_len + 1
    /\ ExecutorSucceeds(DecisionAction(SmartFallback))
    /\ UNCHANGED <<program, critic_vars, file_vars, client_vars, gradio_vars>>

\* the loop is left only through complete here: the cap is never reached
FailingBackendNext ==
    \/ FailingBackendStart
    \/ FailingBackendIteration
    \/ RunSaveResults

\* run keeps going: every await returns
FailingBackendSpec ==
    FailingBackendInit /\ [][FailingBackendNext]_vars /\ WF_vars(FailingBackendNext)

\* C32: when every decision comes from the rule-based fallback, every executor
\* succeeds and every evaluation gives at least 8.0, run eventually dispatches
\* complete before its cap of 50 iterations
C32_ProgressOnFallbackOnly ==
    <>(/\ pc \in {"save", "done"}
       /\ LastRecorded = "complete"
       /\ iteration < CodeMaxIterations)

\* the fallback alone has brought run to complete in its eighth iteration
C32_CompletedByFallback ==
    /\ program = "smart" /\ pc = "done"
    /\ LastRecorded = "complete"
    /\ decision = MkDecision("complete", "fallback", 95)
    /\ iteration = 8
    /\ Len(biography_versions) = 1

\* C33: a call of FallbackModelClient.create that has ended has either
\* returned the response of a successful attempt or raised an error: it never
\* ends normally without a response
C33_CreateReturnsOrRaises ==
    program = "client" => client_pc \in {"idle", "primary", "backup", "returned", "raised"}

\* no two neighbours of a dialogue have the same speaker
Alternates(dialogue) ==
    \A i \in 1..(Len(dialogue) - 1) : dialogue[i] # dialogue[i + 1]

\* conversation_history holds as many turns as the dialogue
NoTurnLost(session_data) ==
    Len(session_data.conversation_history) >= Len(session_data.interview_dialogue)

\* C34: whatever the interleaving of handle_send_message calls on a session
\* that create_new_session made, its interview_dialogue alternates speakers
\* and its conversation_history holds every turn of the dialogue
C34_InterleavedSendsKeepTurns ==
    (program = "gradio" /\ export_file = NoFile) =>
      \A sid \in SessionIds :
        /\ Alternates(active_sessions[sid].interview_dialogue)
        /\ NoTurnLost(active_sessions[sid])

----------------------------------------------------------------------------
(* agents/coordinator.py: BiographyCritic.process_person_biography, one     *)
(* call, cut at the awaits of its stages.                                   *)

\* the cap of the improvement loop
improvement_max_iterations == 5
\* the last round that may supplement the interview
InterviewRounds == 2
\* the last round that may supplement the historical research
ResearchRounds == 3
\* the round that refines the Hero's Journey structure whatever was done
HeroRound == 3
\* the first round that refines it when nothing else was done
HeroFrom == 2

\* what an evaluation gives the loop: the critic's result, whether it asks
\* for more interview (needs_additional_interview or a non-empty
\* action_plan.interview_required) and whether action_plan.research_required
\* is non-empty.  The sentinel results carry no action_plan and no request.
Evaluations ==
    {[quality |-> evaluate_biography_quality(outcome), needs_interview |-> ni,
      research_required |-> rr] :
        outcome \in ParsedOutputs, ni \in BOOLEAN, rr \in BOOLEAN}
    \cup {[quality |-> evaluate_biography_quality(outcome), needs_interview |-> FALSE,
           research_required |-> FALSE] : outcome \in CriticFailures}

\* _research_missing_historical_context returns a dict with one non-empty
\* string, so "enhanced_context and any(enhanced_context.values())" holds
ResearchFound == TRUE

\* the rewrites of one round, in the order they are made
ImprovementStrategies(q, current_iteration) ==
    IF q.needs_interview /\ current_iteration <= InterviewRounds
    THEN <<"interview">>
    ELSE IF q.research_required /\ current_iteration <= ResearchRounds
    THEN IF ResearchFound THEN <<"research">> ELSE <<"literary">>
    ELSE IF current_iteration = HeroRound \/ current_iteration >= HeroFrom
    THEN <<"hero_journey">>
    ELSE <<"literary">>

\* a loop that goes on whatever the evaluation says
LoopContinues_IgnoreStandard(q, current_iteration) ==
    current_iteration < improvement_max_iterations

\* the while condition of the improvement loop
LoopContinues(q, current_iteration) ==
    /\ current_iteration < improvement_max_iterations
    /\ ~q.quality.meets_standard

\* self.current_stage = stage
Entered(stage) ==
    [critic EXCEPT !.current_stage = stage, !.stages = Append(@, stage)]

\* the except branch: the result is returned with the error
Failed(c, r) ==
    /\ critic' = [c EXCEPT !.pc = "returned"]
    /\ result' = [r EXCEPT !.status = "failed", !.error = "str(e)"]

CriticFrame == UNCHANGED <<program, smart_vars, gradio_vars, client_vars, file_vars>>

\* the call: person_name is read before the try block, so a record without
\* person_info or name raises out of the method
ProcessPersonBiography ==
    \E named \in BOOLEAN :
      /\ program = "critic" /\ critic.pc = "idle"
      /\ IF named
         THEN /\ critic' = [critic EXCEPT !.pc = "interview"]
              /\ result' = [NoResult EXCEPT !.status = "started"]
         ELSE /\ critic' = [critic EXCEPT !.pc = "raised"]
              /\ UNCHANGED result
      /\ CriticFrame

\* Stage 1: the interview; its result is read by key
StageInterview ==
    \E raises \in BOOLEAN :
      /\ program = "critic" /\ critic.pc = "interview"
      /\ IF raises
         THEN Failed(Entered("interview"), result)
         ELSE /\ critic' = [Entered("interview") EXCEPT !.pc = "event_analysis"]
              /\ UNCHANGED result
      /\ CriticFrame

\* Stage 2: the extractor absorbs its failures
StageEventAnalysis ==
    /\ program = "critic" /\ critic.pc = "event_analysis"
    /\ critic' = [Entered("event_analysis") EXCEPT !.pc = "historical_research"]
    /\ UNCHANGED result
    /\ CriticFrame

\* Stage 3: the contextualizer absorbs its failures
StageHistoricalResearch ==
    /\ program = "critic" /\ critic.pc = "historical_research"
    /\ critic' = [Entered("historical_research") EXCEPT !.pc = "biography_writing"]
    /\ UNCHANGED result
    /\ CriticFrame

\* Stage 4: the writer builds its prompt before its own try block
StageBiographyWriting ==
    \E raises \in BOOLEAN :
      /\ program = "critic" /\ critic.pc = "biography_writing"
      /\ IF raises
         THEN Failed(Entered("biography_writing"), result)
         ELSE /\ critic' = [Entered("biography_writing") EXCEPT !.pc = "quality_assessment"]
              /\ UNCHANGED result
      /\ CriticFrame

\* Stage 5: the first evaluation; quality_score is stored, then a score that
\* is not a number fails in the ':.1f' of the print
StageQualityAssessment ==
    \E q \in Evaluations :
      LET c == [Entered("quality_assessment") EXCEPT !.quality_result = q]
          r == [result EXCEPT !.quality_score = q.quality.overall_score]
      IN
      /\ program = "critic" /\ critic.pc = "quality_assessment"
      /\ IF q.quality.score = "nonnum"
         THEN Failed(c, r)
         ELSE /\ critic' = [c EXCEPT !.pc = "improvement"]
              /\ result' = r
      /\ CriticFrame

\* one round up to its rewrite: the strategy is chosen and the biography
\* rewritten; the supplementary interview compares the score and walks the
\* dimension analysis outside any try block
ImprovementRewrite ==
    \E raises \in BOOLEAN :
      LET n == critic.current_iteration + 1
          applied_now == ImprovementStrategies(critic.quality_result, n)
          c == [critic EXCEPT !.current_iteration = n,
                              !.strategies = applied_now,
                              !.rewrites = @ + Len(applied_now)]
      IN
      /\ program = "critic" /\ critic.pc = "improvement"
      /\ LoopContinues(critic.quality_result, critic.current_iteration)
      /\ IF raises
         THEN Failed([critic EXCEPT !.current_iteration = n], result)
         ELSE /\ critic' = [c EXCEPT !.pc = "reassess"]
              /\ UNCHANGED result
      /\ CriticFrame

\* the rest of the round: the new biography is evaluated and quality_score
\* stored; the prints of the score and of the dimension scores fail on a
\* score that is not a number or on dimension scores that are not an object
ImprovementReassess ==
    \E q \in Evaluations, raises \in BOOLEAN :
      LET c == [critic EXCEPT !.quality_result = q, !.evaluations = @ + 1]
          r == [result EXCEPT !.quality_score = q.quality.overall_score]
      IN
      /\ program = "critic" /\ critic.pc = "reassess"
      /\ raises => q.quality.feedback = "<model>"
      /\ IF q.quality.score = "nonnum" \/ raises
         THEN Failed(c, r)
         ELSE /\ critic' = [c EXCEPT !.pc = "improvement"]
              /\ result' = r
      /\ CriticFrame

\* the loop is left: the final fields are stored
ImprovementDone ==
    /\ program = "critic" /\ critic.pc = "improvement"
    /\ ~LoopContinues(critic.quality_result, critic.current_iteration)
    /\ critic' = [critic EXCEPT !.pc = "hero_journey_assessment"]
    /\ result' = [result EXCEPT
                    !.finalized = TRUE,
                    !.final_quality_score = critic.quality_result.quality.overall_score,
                    !.improvement_iterations = critic.current_iteration]
    /\ CriticFrame

\* Stage 6: the Hero's Journey assessment; the percentage is printed with
\* ':.1f'
StageHeroJourney ==
    \E raises \in BOOLEAN :
      /\ program = "critic" /\ critic.pc = "hero_journey_assessment"
      /\ IF raises
         THEN Failed(Entered("hero_journey_assessment"), result)
         ELSE /\ critic' = [Entered("hero_journey_assessment") EXCEPT !.pc = "returned"]
              /\ result' = [result EXCEPT !.status = "completed"]
      /\ CriticFrame

CriticNext ==
    \/ ProcessPersonBiography
    \/ StageInterview
    \/ StageEventAnalysis
    \/ StageHistoricalResearch
    \/ StageBiographyWriting
    \/ StageQualityAssessment
    \/ ImprovementRewrite
    \/ ImprovementReassess
    \/ ImprovementDone
    \/ StageHeroJourney

CriticSpecInit ==
    /\ program = "critic"
    /\ SmartInit
    /\ GradioInit
    /\ ClientInit
    /\ CriticInit
    /\ FileInit

CriticSpec == CriticSpecInit /\ [][CriticNext]_vars

\* the six stages in their order
AllStages ==
    <<"interview", "event_analysis", "historical_research", "biography_writing",
      "quality_assessment", "hero_journey_assessment">>

\* C35: the improvement loop runs at most 5 rounds and not at all when the
\* evaluation at its head meets the standard; every round that is run
\* rewrites the biography once and evaluates it once; improvement_iterations
\* is the number of rounds and final_quality_score the overall_score of the
\* last evaluation
C35_ImprovementLoop ==
    /\ [](program = "critic" =>
            /\ critic.current_iteration <= 5
            /\ (critic.pc \in {"improvement", "hero_journey_assessment"} =>
                  /\ critic.rewrites = critic.current_iteration
                  /\ critic.evaluations = critic.current_iteration)
            /\ (critic.pc = "reassess" =>
                  /\ critic.rewrites = critic.current_iteration
                  /\ critic.evaluations = critic.current_iteration - 1)
            /\ (result.finalized =>
                  /\ result.improvement_iterations = critic.current_iteration
                  /\ result.final_quality_score = critic.quality_result.quality.overall_score))
    /\ [][(/\ program = "critic"
           /\ critic.pc = "improvement"
           /\ critic.quality_result.quality.meets_standard)
          => /\ critic'.pc = "hero_journey_assessment"
             /\ critic'.current_iteration = critic.current_iteration
             /\ critic'.rewrites = critic.rewrites]_vars

\* five rounds were run and the standard never met
C35_FiveRoundsRun ==
    /\ program = "critic" /\ critic.pc = "returned"
    /\ result.status = "completed"
    /\ result.improvement_iterations = 5
    /\ critic.rewrites = 5 /\ critic.evaluations = 5
    /\ ~critic.quality_result.quality.meets_standard

\* C36: the strategy of a round follows the announced plan: supplementary
\* interview only in rounds 1-2, supplementary research only in rounds 2-3,
\* Hero's Journey refinement only from round 3 on, literary optimization only
\* when no other strategy was applied in the round
C36_StrategyFollowsPlan ==
    program = "critic" =>
      \A i \in 1..Len(critic.strategies) :
        /\ critic.strategies[i] = "interview" => critic.current_iteration \in 1..2
        /\ critic.strategies[i] = "research" => critic.current_iteration \in 2..3
        /\ critic.strategies[i] = "hero_journey" => critic.current_iteration >= 3
        /\ critic.strategies[i] = "literary" => Len(critic.strategies) = 1

\* C37: process_person_biography never raises; a result that is returned is
\* failed with an error or completed without one, never started; a completed
\* result has run the six stages in their order
C37_NeverRaises ==
    program = "critic" =>
      /\ critic.pc # "raised"
      /\ (critic.pc = "returned" =>
            /\ result.status \in {"completed", "failed"}
            /\ (result.status = "failed" => result.error # "None")
            /\ (result.status = "completed" =>
                  result.error = "None" /\ critic.stages = AllStages))

----------------------------------------------------------------------------
(* utils/file_manager.py: FileManager._make_json_serializable over Python   *)
(* values: scalars, lists, dicts (the i-th item is the value of the i-th    *)
(* key), objects with a __dict__ (the i-th item is the value of the i-th    *)
(* attribute) and values json cannot encode.                                *)

\* items of one container
MaxItems == 2

\* str, int and None are encoded by json; a datetime is not and has no
\* __dict__
Scalars == {Value("str", "value1", <<>>), Value("int", "42", <<>>), NoneValue,
            Value("datetime", "2024-01-01", <<>>)}

Containers == {"list", "dict", "object"}

SeqsUpTo(S, n) == UNION {[1..m -> S] : m \in 0..n}

\* scalars and containers of scalars
Flat ==
    Scalars \cup {Value(k, "", items) : k \in Containers, items \in SeqsUpTo(Scalars, MaxItems)}

\* and containers holding one of those
PythonValues ==
    Flat \cup {Value(k, "", <<v>>) : k \in Containers, v \in Flat}

\* json.dumps(value) does not raise
RECURSIVE Serializable(_)
Serializable(value) ==
    IF value.kind \in {"str", "int", "None"} THEN TRUE
    ELSE IF value.kind \in {"list", "dict"}
    THEN \A i \in 1..Len(value.items) : Serializable(value.items[i])
    ELSE FALSE

\* str(value): some text
Str(value) == Value("str", "str(" \o value.kind \o ")", <<>>)

\* a conversion that turns every attribute into text
ObjectToDict_AllText(value) ==
    Value("dict", "", [i \in 1..Len(value.items) |-> Str(value.items[i])])

\* the first branch: the object's attributes, each kept when json can encode
\* it and turned into text otherwise
ObjectToDict(value) ==
    Value("dict", "",
          [i \in 1..Len(value.items) |->
             IF Serializable(value.items[i]) THEN value.items[i]
             ELSE Str(value.items[i])])

RECURSIVE make_json_serializable(_)
make_json_serializable(value) ==
    IF value.kind = "object" THEN ObjectToDict(value)
    ELSE IF value.kind = "dict"
    THEN Value("dict", "",
               [i \in 1..Len(value.items) |-> make_json_serializable(value.items[i])])
    ELSE IF value.kind = "list"
    THEN Value("list", "",
               [i \in 1..Len(value.items) |-> make_json_serializable(value.items[i])])
    ELSE IF Serializable(value) THEN value
    ELSE Str(value)

SerializeInit ==
    /\ program = "file_manager"
    /\ SmartInit
    /\ GradioInit
    /\ ClientInit
    /\ CriticInit
    /\ obj \in PythonValues
    /\ serializable_result = NoneValue
    /\ applied = 0

FileFrame == UNCHANGED <<program, smart_vars, gradio_vars, client_vars, critic_vars, obj>>

\* serializable_result = self._make_json_serializable(obj)
MakeSerializable ==
    /\ program = "file_manager" /\ applied = 0
    /\ serializable_result' = make_json_serializable(obj)
    /\ applied' = 1
    /\ FileFrame

\* the function applied to its own result
MakeSerializableAgain ==
    /\ program = "file_manager" /\ applied = 1
    /\ serializable_result' = make_json_serializable(serializable_result)
    /\ applied' = 2
    /\ FileFrame

SerializeNext == MakeSerializable \/ MakeSerializableAgain

SerializeSpec == SerializeInit /\ [][SerializeNext]_vars

\* C38: _make_json_serializable returns a value equal to its input when the
\* input is a dict, list or scalar json can encode; it turns an object into
\* the dict of its attributes, keeping every attribute value json can encode;
\* and applying it to its own result changes nothing
C38_SerializableFixpoint ==
    (program = "file_manager" /\ applied >= 1) =>
      /\ (Serializable(obj) => serializable_result = obj)
      /\ (obj.kind = "object" =>
            /\ serializable_result.kind = "dict"
            /\ Len(serializable_result.items) = Len(obj.items)
            /\ \A i \in 1..Len(obj.items) :
                 Serializable(obj.items[i]) => serializable_result.items[i] = obj.items[i])
      /\ (applied = 2 => serializable_result = make_json_serializable(obj))

\* an object with an attribute json can encode and one it cannot has been
\* converted twice
C38_ObjectConvertedTwice ==
    /\ program = "file_manager" /\ applied = 2
    /\ obj = Value("object", "", <<Value("str", "value1", <<>>),
                                   Value("datetime", "2024-01-01", <<>>)>>)
    /\ serializable_result = Value("dict", "", <<Value("str", "value1", <<>>),
                                                 Value("str", "str(datetime)", <<>>)>>)
====
